---- MODULE Spec2Model ----
(***************************************************************************)
(* Model of github.com/kubensage/go-common, package datastructure:         *)
(* RingBuffer[T], a fixed-capacity circular FIFO guarded by a sync.Mutex   *)
(* (src/datastructure/ringbuffer.go).                                      *)
(*                                                                         *)
(* Spec      one caller at a time: every call of Add, Pop, Readd and Len   *)
(*           is one step; history variables record the last two calls and  *)
(*           the current add-then-drain run.                               *)
(* ScenarioSpec  one caller making the calls Add, Add, Add, Add, Pop,      *)
(*           Readd, Add in that order, with any items.                     *)
(* ConcSpec  several goroutines share one buffer; every call is split into *)
(*           the steps between which another goroutine can run: acquiring  *)
(*           b.mu, each write of a field or slot, and the deferred Unlock. *)
(* FairConcSpec  ConcSpec under a fair scheduler.                          *)
(*                                                                         *)
(* and of package gogo, SafeGo (src/go/go.go):                             *)
(*                                                                         *)
(* SafeGoSpec  one goroutine calls SafeGo(&wg, f) some number of times and *)
(*           then wg.Wait(); the launched goroutines run f and the         *)
(*           deferred wg.Done().                                           *)
(* FairSafeGoSpec  SafeGoSpec under a fair scheduler.                      *)
(***************************************************************************)
EXTENDS Integers, Sequences, FiniteSets, TLC

\* ---------------------------------------------------------------- bounds
MaxCap == 3    \* largest capacity handed to NewRingBuffer
MaxNeg == 1    \* NewRingBuffer is also called with -MaxNeg .. 0
MaxVal == 1    \* the element type T is 0 .. MaxVal
MaxOver == 2   \* an add-then-drain run records up to MaxCap + MaxOver adds
NumProcs == 2  \* goroutines sharing the buffer in ConcSpec
ConcCap == 2   \* largest capacity of the shared buffer in ConcSpec
MaxScenVal == 5  \* the items of ScenarioSpec are 1 .. MaxScenVal
MaxTasks == 3  \* SafeGo is called at most MaxTasks times before wg.Wait()

\* The zero value of T ("var zeroValue T", and the named result "zero").
Zero == 0

T == Zero..MaxVal
Caps == (0 - MaxNeg)..MaxCap
MaxAdds == MaxCap + MaxOver

NoPanic == "none"
PanicMakeslice == "NewRingBuffer: makeslice: len out of range"
PanicDivide == "Add: integer divide by zero"

\* ------------------------------------------------ the buffer, sequential
VARIABLES
    cap,        \* the argument of NewRingBuffer
    data,       \* b.data: 0..capacity-1 -> T
    capacity,   \* b.capacity
    start,      \* b.start
    size,       \* b.size
    panic,      \* NoPanic, or the run-time panic that ended the program
    last,       \* history: the most recent call (arguments, results, state before)
    before,     \* history: the call before last
    phase,      \* history: "adding" | "draining" | "drained" | "mixed"
    added,      \* history: the items added, in order, since the buffer was last empty
    popped,     \* history: the results of the Pops that followed those adds
    abs,        \* history: the bounded double-ended sequence q the buffer
                \* implements, and what its last operation returned
    popSlot,    \* history: the slot the most recent successful Pop emptied, or -1
    trace,      \* history: the items of the calls made so far (ScenarioSpec)
    mu,         \* b.mu: 0 when unlocked, else the goroutine holding it
    pc,         \* per goroutine: "idle", or the step of its call it is about to take
    loc,        \* per goroutine: the argument and the named results of the call
                \* it is in (reset when the call returns)
    lin,        \* history: the buffer after the calls so far, run one at a time
                \* in the order they acquired b.mu
    exp,        \* history: per goroutine, what its call returns in that run
    sizeBefore, \* history: b.size when the holder of b.mu acquired it, or -1
    during,     \* history: per goroutine in Len before its read, the sizes the
                \* buffer had immediately before and after the calls
                \* overlapping this one
    wgCounter,  \* the counter of the sync.WaitGroup wg
    sgPc,       \* the caller of SafeGo: "idle" between calls, "Add" and "Go"
                \* inside SafeGo, "Wait" blocked in wg.Wait(), "Done" after it
    launched,   \* the number of SafeGo calls made so far
    task        \* per SafeGo call: "none", "ready" (goroutine launched),
                \* "f" (f running), "returned" (f returned, wg.Done() pending)
                \* or "done"

\* What the steps of ConcSpec leave alone, and what the calls of Spec do.
govars == <<wgCounter, sgPc, launched, task>>
seqvars == <<cap, panic, last, before, phase, added, popped, abs, popSlot, trace,
             govars>>
concvars == <<mu, pc, loc, lin, exp, sizeBefore, during, govars>>
vars == <<cap, data, capacity, start, size, panic, last, before, phase, added, popped,
          abs, popSlot, trace, mu, pc, loc, lin, exp, sizeBefore, during, govars>>

Procs == 1..NumProcs
Tasks == 1..MaxTasks

\* The four fields of the struct as one value.
buf == [data |-> data, capacity |-> capacity, start |-> start, size |-> size]

\* What the caller holds when NewRingBuffer panicked: no buffer.
NilBuffer == [data |-> <<>>, capacity |-> 0, start |-> 0, size |-> 0]

\* make([]T, cap) panics for cap < 0; nothing else is validated.
NewRingBuffer(c) ==
    IF c < 0
    THEN [b |-> NilBuffer, panic |-> PanicMakeslice]
    ELSE [b |-> [data |-> [i \in 0..(c - 1) |-> Zero],
                 capacity |-> c, start |-> 0, size |-> 0],
          panic |-> NoPanic]

\* Add without the "size < capacity" test: size grows on every call.
RingBuffer_Add_NoFullCheck(b, item) ==
    IF b.capacity = 0
    THEN [b |-> b, panic |-> PanicDivide]
    ELSE LET idx == (b.start + b.size) % b.capacity
         IN  [b |-> [b EXCEPT !.data = [b.data EXCEPT ![idx] = item],
                              !.size = b.size + 1],
              panic |-> NoPanic]

\* Add that overwrites the oldest element of a full buffer but leaves start.
RingBuffer_Add_NoAdvance(b, item) ==
    IF b.capacity = 0
    THEN [b |-> b, panic |-> PanicDivide]
    ELSE LET idx == (b.start + b.size) % b.capacity
             d == [b.data EXCEPT ![idx] = item]
         IN  IF b.size < b.capacity
             THEN [b |-> [b EXCEPT !.data = d, !.size = b.size + 1],
                   panic |-> NoPanic]
             ELSE [b |-> [b EXCEPT !.data = d], panic |-> NoPanic]

\* Add that writes the item at the head instead of behind the newest element.
RingBuffer_Add_AtStart(b, item) ==
    IF b.capacity = 0
    THEN [b |-> b, panic |-> PanicDivide]
    ELSE LET d == [b.data EXCEPT ![b.start] = item]
         IN  IF b.size < b.capacity
             THEN [b |-> [b EXCEPT !.data = d, !.size = b.size + 1],
                   panic |-> NoPanic]
             ELSE [b |-> [b EXCEPT !.data = d,
                                   !.start = (b.start + 1) % b.capacity],
                   panic |-> NoPanic]

\* Add that drops the new item when the buffer is full.
RingBuffer_Add_DropNewest(b, item) ==
    IF b.capacity = 0
    THEN [b |-> b, panic |-> PanicDivide]
    ELSE LET idx == (b.start + b.size) % b.capacity
         IN  IF b.size < b.capacity
             THEN [b |-> [b EXCEPT !.data = [b.data EXCEPT ![idx] = item],
                                   !.size = b.size + 1],
                   panic |-> NoPanic]
             ELSE [b |-> b, panic |-> NoPanic]

RingBuffer_Add(b, item) ==
    IF b.capacity = 0
    THEN [b |-> b, panic |-> PanicDivide]
    ELSE LET idx == (b.start + b.size) % b.capacity
             d == [b.data EXCEPT ![idx] = item]
         IN  IF b.size < b.capacity
             THEN [b |-> [b EXCEPT !.data = d, !.size = b.size + 1],
                   panic |-> NoPanic]
             ELSE [b |-> [b EXCEPT !.data = d,
                                   !.start = (b.start + 1) % b.capacity],
                   panic |-> NoPanic]

\* Pop that takes the newest element instead of the oldest.
RingBuffer_Pop_Newest(b) ==
    IF b.size = 0
    THEN [b |-> b, zero |-> Zero, result |-> Zero, ok |-> FALSE]
    ELSE LET i == (b.start + b.size - 1) % b.capacity
         IN  [b |-> [b EXCEPT !.data = [b.data EXCEPT ![i] = Zero],
                              !.size = b.size - 1],
              zero |-> Zero, result |-> b.data[i], ok |-> TRUE]

\* Pop whose empty path reports success.
RingBuffer_Pop_EmptyOk(b) ==
    IF b.size = 0
    THEN [b |-> b, zero |-> Zero, result |-> Zero, ok |-> TRUE]
    ELSE [b |-> [b EXCEPT !.data = [b.data EXCEPT ![b.start] = Zero],
                          !.start = (b.start + 1) % b.capacity,
                          !.size = b.size - 1],
          zero |-> Zero, result |-> b.data[b.start], ok |-> TRUE]

\* Pop that leaves the popped element in its slot.
RingBuffer_Pop_NoClear(b) ==
    IF b.size = 0
    THEN [b |-> b, zero |-> Zero, result |-> Zero, ok |-> FALSE]
    ELSE [b |-> [b EXCEPT !.start = (b.start + 1) % b.capacity,
                          !.size = b.size - 1],
          zero |-> Zero, result |-> b.data[b.start], ok |-> TRUE]

RingBuffer_Pop(b) ==
    IF b.size = 0
    THEN [b |-> b, zero |-> Zero, result |-> Zero, ok |-> FALSE]
    ELSE [b |-> [b EXCEPT !.data = [b.data EXCEPT ![b.start] = Zero],
                          !.start = (b.start + 1) % b.capacity,
                          !.size = b.size - 1],
          zero |-> Zero, result |-> b.data[b.start], ok |-> TRUE]

\* Readd that writes the item before moving start back.
RingBuffer_Readd_OldSlot(b, item) ==
    IF b.size = b.capacity
    THEN [b |-> b, ok |-> FALSE]
    ELSE [b |-> [b EXCEPT !.start = (b.start - 1 + b.capacity) % b.capacity,
                          !.data = [b.data EXCEPT ![b.start] = item],
                          !.size = b.size + 1],
          ok |-> TRUE]

\* Readd whose full path reports success.
RingBuffer_Readd_FullOk(b, item) ==
    IF b.size = b.capacity
    THEN [b |-> b, ok |-> TRUE]
    ELSE LET s == (b.start - 1 + b.capacity) % b.capacity
         IN  [b |-> [b EXCEPT !.start = s,
                              !.data = [b.data EXCEPT ![s] = item],
                              !.size = b.size + 1],
              ok |-> TRUE]

\* Readd that puts the item behind the newest element, as Add does.
RingBuffer_Readd_AtTail(b, item) ==
    IF b.size = b.capacity
    THEN [b |-> b, ok |-> FALSE]
    ELSE LET i == (b.start + b.size) % b.capacity
         IN  [b |-> [b EXCEPT !.data = [b.data EXCEPT ![i] = item],
                              !.size = b.size + 1],
              ok |-> TRUE]

\* Readd that writes the item over the head without moving start back.
RingBuffer_Readd_KeepStart(b, item) ==
    IF b.size = b.capacity
    THEN [b |-> b, ok |-> FALSE]
    ELSE [b |-> [b EXCEPT !.data = [b.data EXCEPT ![b.start] = item],
                          !.size = b.size + 1],
          ok |-> TRUE]

RingBuffer_Readd(b, item) ==
    IF b.size = b.capacity
    THEN [b |-> b, ok |-> FALSE]
    ELSE LET s == (b.start - 1 + b.capacity) % b.capacity
         IN  [b |-> [b EXCEPT !.start = s,
                              !.data = [b.data EXCEPT ![s] = item],
                              !.size = b.size + 1],
              ok |-> TRUE]

RingBuffer_Len(b) == b.size

\* A record of one call.
Call(op, item, result, ok, n, pre) ==
    [op |-> op, item |-> item, result |-> result, ok |-> ok, n |-> n, pre |-> pre]

NoCall == Call("none", Zero, Zero, FALSE, 0, NilBuffer)

\* The argument and results of a goroutine's call in ConcSpec.
Locals(item, result, ok, n) ==
    [item |-> item, result |-> result, ok |-> ok, n |-> n]

NoLocals == Locals(Zero, Zero, FALSE, 0)

\* The sequence q with its operations: Add appends and drops the head when
\* the length would exceed c, Pop removes the head, Readd prepends when there
\* is room.
AbsAdd(s, x, c) ==
    LET a == Append(s, x)
    IN  [q |-> IF Len(a) > c THEN Tail(a) ELSE a, result |-> Zero, ok |-> TRUE]

AbsPop(s) ==
    IF s = <<>>
    THEN [q |-> s, result |-> Zero, ok |-> FALSE]
    ELSE [q |-> Tail(s), result |-> Head(s), ok |-> TRUE]

AbsReadd(s, x, c) ==
    IF Len(s) < c
    THEN [q |-> <<x>> \o s, result |-> Zero, ok |-> TRUE]
    ELSE [q |-> s, result |-> Zero, ok |-> FALSE]

NoHistory ==
    /\ last = NoCall
    /\ before = NoCall
    /\ added = <<>>
    /\ popped = <<>>
    /\ abs = [q |-> <<>>, result |-> Zero, ok |-> FALSE]
    /\ popSlot = -1
    /\ trace = <<>>

ConcIdle ==
    /\ mu = 0
    /\ pc = [g \in Procs |-> "idle"]
    /\ loc = [g \in Procs |-> NoLocals]
    /\ exp = [g \in Procs |-> NoLocals]
    /\ sizeBefore = -1
    /\ during = [g \in Procs |-> {}]

\* var wg sync.WaitGroup, and no SafeGo call made.
GoIdle ==
    /\ wgCounter = 0
    /\ sgPc = "idle"
    /\ launched = 0
    /\ task = [i \in Tasks |-> "none"]

Init ==
    /\ cap \in Caps
    /\ LET r == NewRingBuffer(cap)
       IN  /\ data = r.b.data
           /\ capacity = r.b.capacity
           /\ start = r.b.start
           /\ size = r.b.size
           /\ panic = r.panic
    /\ NoHistory
    /\ phase = "adding"
    /\ ConcIdle
    /\ lin = buf
    /\ GoIdle

SetBuf(b) ==
    /\ data' = b.data
    /\ capacity' = b.capacity
    /\ start' = b.start
    /\ size' = b.size

Record(c) ==
    /\ before' = last
    /\ last' = c

\* b.Add(item)
CallAdd(item) ==
    /\ panic = NoPanic
    /\ LET r == RingBuffer_Add(buf, item)
       IN  /\ SetBuf(r.b)
           /\ panic' = r.panic
           /\ Record(Call("Add", item, Zero, r.panic = NoPanic, 0, buf))
           /\ IF r.panic = NoPanic /\ Len(added) < MaxAdds
                 /\ (phase = "adding" \/ size = 0)
              THEN /\ phase' = "adding"
                   /\ added' = IF phase = "adding" THEN Append(added, item)
                                                   ELSE <<item>>
                   /\ popped' = <<>>
              ELSE /\ phase' = "mixed"
                   /\ added' = <<>>
                   /\ popped' = <<>>
           /\ abs' = IF r.panic = NoPanic THEN AbsAdd(abs.q, item, capacity) ELSE abs
    /\ UNCHANGED <<cap, popSlot, concvars>>

\* _, result, ok := b.Pop()
CallPop ==
    /\ panic = NoPanic
    /\ LET r == RingBuffer_Pop(buf)
       IN  /\ SetBuf(r.b)
           /\ Record(Call("Pop", r.zero, r.result, r.ok, 0, buf))
           /\ IF phase \in {"adding", "draining"}
              THEN /\ phase' = IF r.ok THEN "draining" ELSE "drained"
                   /\ popped' = IF r.ok THEN Append(popped, r.result) ELSE popped
                   /\ added' = added
              ELSE /\ phase' = "mixed"
                   /\ added' = <<>>
                   /\ popped' = <<>>
           /\ popSlot' = IF r.ok THEN start ELSE popSlot
    /\ abs' = AbsPop(abs.q)
    /\ UNCHANGED <<cap, panic, concvars>>

\* ok := b.Readd(item)
CallReadd(item) ==
    /\ panic = NoPanic
    /\ LET r == RingBuffer_Readd(buf, item)
       IN  /\ SetBuf(r.b)
           /\ Record(Call("Readd", item, Zero, r.ok, 0, buf))
    /\ phase' = "mixed"
    /\ added' = <<>>
    /\ popped' = <<>>
    /\ abs' = AbsReadd(abs.q, item, capacity)
    /\ UNCHANGED <<cap, panic, popSlot, concvars>>

\* n := b.Len()
CallLen ==
    /\ panic = NoPanic
    /\ Record(Call("Len", Zero, Zero, TRUE, RingBuffer_Len(buf), buf))
    /\ UNCHANGED <<cap, data, capacity, start, size, panic, phase, added, popped,
                   abs, popSlot, concvars>>

Next ==
    \/ \E item \in T : CallAdd(item) /\ UNCHANGED trace
    \/ CallPop /\ UNCHANGED trace
    \/ \E item \in T : CallReadd(item) /\ UNCHANGED trace
    \/ CallLen /\ UNCHANGED trace

Spec == Init /\ [][Next]_vars

\* ------------------------------------------- the buffer, a fixed scenario
\* The calls of the scenario, in order.
Script == <<"Add", "Add", "Add", "Add", "Pop", "Readd", "Add">>

ScenT == 1..MaxScenVal

ScenInit ==
    /\ Init
    /\ cap >= 1

\* The next call of the scenario is op.
ScenStep(op) ==
    /\ Len(trace) < Len(Script)
    /\ Script[Len(trace) + 1] = op

ScenAdd(item) ==
    /\ ScenStep("Add")
    /\ CallAdd(item)
    /\ trace' = Append(trace, item)

ScenPop ==
    /\ ScenStep("Pop")
    /\ CallPop
    /\ trace' = Append(trace, Zero)

ScenReadd(item) ==
    /\ ScenStep("Readd")
    /\ CallReadd(item)
    /\ trace' = Append(trace, item)

ScenNext ==
    \/ \E item \in ScenT : ScenAdd(item)
    \/ ScenPop
    \/ \E item \in ScenT : ScenReadd(item)

ScenarioSpec == ScenInit /\ [][ScenNext]_vars

\* ------------------------------------------------- the buffer, concurrent
ConcInit ==
    /\ cap \in 1..ConcCap
    /\ LET r == NewRingBuffer(cap)
       IN  /\ data = r.b.data
           /\ capacity = r.b.capacity
           /\ start = r.b.start
           /\ size = r.b.size
           /\ panic = r.panic
    /\ NoHistory
    /\ phase = "mixed"
    /\ ConcIdle
    /\ lin = buf
    /\ GoIdle

\* A Lock that does not wait for the holder.
Lock_NoWait(g) ==
    /\ mu' = g
    /\ sizeBefore' = size

\* A deferred Unlock that is skipped.
Unlock_Keep(g) ==
    /\ mu' = mu
    /\ sizeBefore' = -1

\* b.mu.Lock(): blocks until the mutex is free.
Lock(g) ==
    /\ mu = 0
    /\ mu' = g
    /\ sizeBefore' = size

\* defer b.mu.Unlock()
Unlock(g) ==
    /\ mu' = 0
    /\ sizeBefore' = -1

Goto(g, to) ==
    pc' = [pc EXCEPT ![g] = to]

\* A call acquires b.mu and will leave the buffer with n elements: it
\* overlaps every call of Len that has not read b.size yet.
Overlap(n) ==
    during' = [h \in Procs |->
                  IF pc[h] = "LenRead" THEN during[h] \cup {n} ELSE during[h]]

\* Add, line 41: the call b.Add(item).
AddCall(g, item) ==
    /\ pc[g] = "idle"
    /\ Goto(g, "AddLock")
    /\ loc' = [loc EXCEPT ![g] = Locals(item, Zero, FALSE, 0)]
    /\ UNCHANGED <<data, capacity, start, size, mu, lin, exp, sizeBefore, during, seqvars>>

\* Add, line 42: b.mu.Lock().
AddLock(g) ==
    /\ pc[g] = "AddLock"
    /\ Lock(g)
    /\ Goto(g, "AddStore")
    /\ lin' = RingBuffer_Add(lin, loc[g].item).b
    /\ exp' = [exp EXCEPT ![g] = Locals(loc[g].item, Zero, FALSE, 0)]
    /\ Overlap(lin'.size)
    /\ UNCHANGED <<data, capacity, start, size, loc, seqvars>>

\* Add, lines 45-46: idx := (start + size) % capacity; data[idx] = item.
AddStore(g) ==
    /\ pc[g] = "AddStore"
    /\ data' = [data EXCEPT ![(start + size) % capacity] = loc[g].item]
    /\ Goto(g, "AddBump")
    /\ UNCHANGED <<capacity, start, size, mu, loc, lin, exp, sizeBefore, during, seqvars>>

\* Add, lines 47-51: size++ when not full, else start advances.
AddBump(g) ==
    /\ pc[g] = "AddBump"
    /\ IF size < capacity
       THEN size' = size + 1 /\ start' = start
       ELSE start' = (start + 1) % capacity /\ size' = size
    /\ Goto(g, "AddUnlock")
    /\ UNCHANGED <<data, capacity, mu, loc, lin, exp, sizeBefore, during, seqvars>>

\* Add, line 43 (deferred) and the return.
AddUnlock(g) ==
    /\ pc[g] = "AddUnlock"
    /\ Unlock(g)
    /\ Goto(g, "idle")
    /\ loc' = [loc EXCEPT ![g] = NoLocals]
    /\ exp' = [exp EXCEPT ![g] = NoLocals]
    /\ UNCHANGED <<data, capacity, start, size, lin, during, seqvars>>

\* Pop, line 60: the call b.Pop().
PopCall(g) ==
    /\ pc[g] = "idle"
    /\ Goto(g, "PopLock")
    /\ UNCHANGED <<data, capacity, start, size, mu, loc, lin, exp, sizeBefore, during, seqvars>>

\* Pop, line 61: b.mu.Lock().
PopLock(g) ==
    /\ pc[g] = "PopLock"
    /\ Lock(g)
    /\ Goto(g, "PopTest")
    /\ LET r == RingBuffer_Pop(lin)
       IN  /\ lin' = r.b
           /\ exp' = [exp EXCEPT ![g] = Locals(r.zero, r.result, r.ok, 0)]
    /\ Overlap(lin'.size)
    /\ UNCHANGED <<data, capacity, start, size, loc, seqvars>>

\* Pop, lines 64-66: the empty buffer returns zero, zero, false.
PopTest(g) ==
    /\ pc[g] = "PopTest"
    /\ IF size = 0
       THEN /\ loc' = [loc EXCEPT ![g] = Locals(Zero, Zero, FALSE, 0)]
            /\ Goto(g, "PopUnlock")
       ELSE /\ loc' = loc
            /\ Goto(g, "PopClear")
    /\ UNCHANGED <<data, capacity, start, size, mu, lin, exp, sizeBefore, during, seqvars>>

\* Pop, lines 67-69: result = data[start]; data[start] = zeroValue.
PopClear(g) ==
    /\ pc[g] = "PopClear"
    /\ loc' = [loc EXCEPT ![g].result = data[start]]
    /\ data' = [data EXCEPT ![start] = Zero]
    /\ Goto(g, "PopStart")
    /\ UNCHANGED <<capacity, start, size, mu, lin, exp, sizeBefore, during, seqvars>>

\* Pop, line 70: start = (start + 1) % capacity.
PopStart(g) ==
    /\ pc[g] = "PopStart"
    /\ start' = (start + 1) % capacity
    /\ Goto(g, "PopSize")
    /\ UNCHANGED <<data, capacity, size, mu, loc, lin, exp, sizeBefore, during, seqvars>>

\* Pop, lines 71-72: size--; return zero, result, true.
PopSize(g) ==
    /\ pc[g] = "PopSize"
    /\ size' = size - 1
    /\ loc' = [loc EXCEPT ![g].ok = TRUE]
    /\ Goto(g, "PopUnlock")
    /\ UNCHANGED <<data, capacity, start, mu, lin, exp, sizeBefore, during, seqvars>>

\* Pop, line 62 (deferred) and the return.
PopUnlock(g) ==
    /\ pc[g] = "PopUnlock"
    /\ Unlock(g)
    /\ Goto(g, "idle")
    /\ loc' = [loc EXCEPT ![g] = NoLocals]
    /\ exp' = [exp EXCEPT ![g] = NoLocals]
    /\ UNCHANGED <<data, capacity, start, size, lin, during, seqvars>>

\* Readd, line 86: the call b.Readd(item).
ReaddCall(g, item) ==
    /\ pc[g] = "idle"
    /\ Goto(g, "ReaddLock")
    /\ loc' = [loc EXCEPT ![g] = Locals(item, Zero, FALSE, 0)]
    /\ UNCHANGED <<data, capacity, start, size, mu, lin, exp, sizeBefore, during, seqvars>>

\* Readd, line 87: b.mu.Lock().
ReaddLock(g) ==
    /\ pc[g] = "ReaddLock"
    /\ Lock(g)
    /\ Goto(g, "ReaddTest")
    /\ LET r == RingBuffer_Readd(lin, loc[g].item)
       IN  /\ lin' = r.b
           /\ exp' = [exp EXCEPT ![g] = Locals(loc[g].item, Zero, r.ok, 0)]
    /\ Overlap(lin'.size)
    /\ UNCHANGED <<data, capacity, start, size, loc, seqvars>>

\* Readd, lines 90-92: the full buffer returns false.
ReaddTest(g) ==
    /\ pc[g] = "ReaddTest"
    /\ IF size = capacity
       THEN Goto(g, "ReaddUnlock")
       ELSE Goto(g, "ReaddStart")
    /\ UNCHANGED <<data, capacity, start, size, mu, loc, lin, exp, sizeBefore, during, seqvars>>

\* Readd, line 93: start = (start - 1 + capacity) % capacity.
ReaddStart(g) ==
    /\ pc[g] = "ReaddStart"
    /\ start' = (start - 1 + capacity) % capacity
    /\ Goto(g, "ReaddStore")
    /\ UNCHANGED <<data, capacity, size, mu, loc, lin, exp, sizeBefore, during, seqvars>>

\* Readd, line 94: data[start] = item.
ReaddStore(g) ==
    /\ pc[g] = "ReaddStore"
    /\ data' = [data EXCEPT ![start] = loc[g].item]
    /\ Goto(g, "ReaddSize")
    /\ UNCHANGED <<capacity, start, size, mu, loc, lin, exp, sizeBefore, during, seqvars>>

\* Readd, lines 95-96: size++; return true.
ReaddSize(g) ==
    /\ pc[g] = "ReaddSize"
    /\ size' = size + 1
    /\ loc' = [loc EXCEPT ![g].ok = TRUE]
    /\ Goto(g, "ReaddUnlock")
    /\ UNCHANGED <<data, capacity, start, mu, lin, exp, sizeBefore, during, seqvars>>

\* Readd, line 88 (deferred) and the return.
ReaddUnlock(g) ==
    /\ pc[g] = "ReaddUnlock"
    /\ Unlock(g)
    /\ Goto(g, "idle")
    /\ loc' = [loc EXCEPT ![g] = NoLocals]
    /\ exp' = [exp EXCEPT ![g] = NoLocals]
    /\ UNCHANGED <<data, capacity, start, size, lin, during, seqvars>>

\* Len, line 103: the call; the body takes no lock.
LenCall(g) ==
    /\ pc[g] = "idle"
    /\ Goto(g, "LenRead")
    /\ during' = [during EXCEPT ![g] =
                      {lin.size} \cup (IF mu = 0 THEN {} ELSE {sizeBefore})]
    /\ UNCHANGED <<data, capacity, start, size, mu, loc, lin, exp, sizeBefore, seqvars>>

\* A Len that returns the head index instead of the element count.
LenRead_Start(g) ==
    /\ pc[g] = "LenRead"
    /\ loc' = [loc EXCEPT ![g].n = start, ![g].ok = TRUE]
    /\ Goto(g, "LenRet")
    /\ during' = [during EXCEPT ![g] = {}]
    /\ UNCHANGED <<data, capacity, start, size, mu, lin, exp, sizeBefore, seqvars>>

\* Len, line 104: return b.size. One read of the field, at whatever point
\* of the other goroutines' calls the scheduler puts it.
LenRead(g) ==
    /\ pc[g] = "LenRead"
    /\ loc' = [loc EXCEPT ![g].n = size, ![g].ok = TRUE]
    /\ Goto(g, "LenRet")
    /\ during' = [during EXCEPT ![g] = {}]
    /\ UNCHANGED <<data, capacity, start, size, mu, lin, exp, sizeBefore, seqvars>>

\* Len returns to its caller.
LenRet(g) ==
    /\ pc[g] = "LenRet"
    /\ Goto(g, "idle")
    /\ loc' = [loc EXCEPT ![g] = NoLocals]
    /\ UNCHANGED <<data, capacity, start, size, mu, lin, exp, sizeBefore, during, seqvars>>

ConcNext ==
    \E g \in Procs :
        \/ \E item \in T : AddCall(g, item)
        \/ AddLock(g)
        \/ AddStore(g)
        \/ AddBump(g)
        \/ AddUnlock(g)
        \/ PopCall(g)
        \/ PopLock(g)
        \/ PopTest(g)
        \/ PopClear(g)
        \/ PopStart(g)
        \/ PopSize(g)
        \/ PopUnlock(g)
        \/ \E item \in T : ReaddCall(g, item)
        \/ ReaddLock(g)
        \/ ReaddTest(g)
        \/ ReaddStart(g)
        \/ ReaddStore(g)
        \/ ReaddSize(g)
        \/ ReaddUnlock(g)
        \/ LenCall(g)
        \/ LenRead(g)
        \/ LenRet(g)

ConcSpec == ConcInit /\ [][ConcNext]_vars

\* b.mu.Lock() of the call g has made.
LockStep(g) ==
    AddLock(g) \/ PopLock(g) \/ ReaddLock(g)

\* The steps of g's call that wait for nothing: everything after Lock, and
\* the whole of Len.
Body(g) ==
    \/ AddStore(g) \/ AddBump(g) \/ AddUnlock(g)
    \/ PopTest(g) \/ PopClear(g) \/ PopStart(g) \/ PopSize(g) \/ PopUnlock(g)
    \/ ReaddTest(g) \/ ReaddStart(g) \/ ReaddStore(g) \/ ReaddSize(g)
    \/ ReaddUnlock(g)
    \/ LenRead(g) \/ LenRet(g)

\* Fair scheduling: a goroutine that can run does run, and a goroutine
\* waiting in Lock gets the mutex if it is free again and again (sync.Mutex
\* hands the lock to a waiter that has been starved). Nothing obliges a
\* goroutine to make a call.
FairConcSpec ==
    /\ ConcSpec
    /\ \A g \in Procs : WF_vars(Body(g)) /\ SF_vars(LockStep(g))

\* The steps of Add, Pop and Readd between Lock and Unlock.
LockedPcs ==
    {"AddStore", "AddBump", "AddUnlock",
     "PopTest", "PopClear", "PopStart", "PopSize", "PopUnlock",
     "ReaddTest", "ReaddStart", "ReaddStore", "ReaddSize", "ReaddUnlock"}

\* The steps after which a call of Add, Pop or Readd has its results.
DonePcs == {"AddUnlock", "PopUnlock", "ReaddUnlock"}

\* ------------------------------------------------------------- SafeGo
\* The ring buffer variables, which SafeGo does not touch.
rbvars == <<cap, data, capacity, start, size, panic, last, before, phase, added,
            popped, abs, popSlot, trace, mu, pc, loc, lin, exp, sizeBefore, during>>

\* var wg sync.WaitGroup in the caller; the buffer plays no part.
SafeGoInit ==
    /\ Init
    /\ cap = 1

\* The caller calls SafeGo(&wg, f), line 23.
SafeGoCall ==
    /\ sgPc = "idle"
    /\ launched < MaxTasks
    /\ launched' = launched + 1
    /\ sgPc' = "Add"
    /\ UNCHANGED <<wgCounter, task, rbvars>>

\* A SafeGo that launches the goroutine without wg.Add(1).
SafeGoAdd_Skip ==
    /\ sgPc = "Add"
    /\ sgPc' = "Go"
    /\ UNCHANGED <<wgCounter, launched, task, rbvars>>

\* Line 27: wg.Add(1).
SafeGoAdd ==
    /\ sgPc = "Add"
    /\ wgCounter' = wgCounter + 1
    /\ sgPc' = "Go"
    /\ UNCHANGED <<launched, task, rbvars>>

\* Lines 28-31: the go statement; SafeGo returns.
SafeGoLaunch ==
    /\ sgPc = "Go"
    /\ task' = [task EXCEPT ![launched] = "ready"]
    /\ sgPc' = "idle"
    /\ UNCHANGED <<wgCounter, launched, rbvars>>

\* Lines 29-30 in the new goroutine: defer wg.Done() is registered and f is
\* called.
TaskStart(i) ==
    /\ task[i] = "ready"
    /\ task' = [task EXCEPT ![i] = "f"]
    /\ UNCHANGED <<wgCounter, sgPc, launched, rbvars>>

\* Line 30: f returns.
TaskReturn(i) ==
    /\ task[i] = "f"
    /\ task' = [task EXCEPT ![i] = "returned"]
    /\ UNCHANGED <<wgCounter, sgPc, launched, rbvars>>

\* Line 29: the deferred wg.Done(), which is wg.Add(-1).
TaskDone(i) ==
    /\ task[i] = "returned"
    /\ wgCounter' = wgCounter - 1
    /\ task' = [task EXCEPT ![i] = "done"]
    /\ UNCHANGED <<sgPc, launched, rbvars>>

\* The caller, outside any SafeGo call, calls wg.Wait() (line 22 of the
\* example).
WaitCall ==
    /\ sgPc = "idle"
    /\ sgPc' = "Wait"
    /\ UNCHANGED <<wgCounter, launched, task, rbvars>>

\* wg.Wait() returns: it blocks until the counter is zero.
WaitReturn ==
    /\ sgPc = "Wait"
    /\ wgCounter = 0
    /\ sgPc' = "Done"
    /\ UNCHANGED <<wgCounter, launched, task, rbvars>>

SafeGoNext ==
    \/ SafeGoCall
    \/ SafeGoAdd
    \/ SafeGoLaunch
    \/ \E i \in Tasks : TaskStart(i)
    \/ \E i \in Tasks : TaskReturn(i)
    \/ \E i \in Tasks : TaskDone(i)
    \/ WaitCall
    \/ WaitReturn

SafeGoSpec == SafeGoInit /\ [][SafeGoNext]_vars

\* Fair scheduling: the caller inside SafeGo and inside Wait, and a launched
\* goroutine outside f, run when they can. Nothing obliges the caller to
\* make a call, or f to return.
FairSafeGoSpec ==
    /\ SafeGoSpec
    /\ WF_vars(SafeGoAdd) /\ WF_vars(SafeGoLaunch) /\ WF_vars(WaitReturn)
    /\ \A i \in Tasks : WF_vars(TaskStart(i)) /\ WF_vars(TaskDone(i))

\* The SafeGo calls whose goroutine has been launched and has not finished
\* wg.Done().
Running ==
    {i \in Tasks : task[i] \in {"ready", "f", "returned"}}

\* ------------------------------------------------------ derived notions
\* The live elements, oldest first: data[(start + i) mod capacity], i < size.
Contents(b) ==
    [i \in 1..b.size |-> b.data[(b.start + i - 1) % b.capacity]]

\* The results of calling Pop until it returns ok = false.
RECURSIVE Drain(_)
Drain(b) ==
    LET r == RingBuffer_Pop(b)
    IN  IF r.ok THEN <<r.result>> \o Drain(r.b) ELSE <<>>

\* The slots of the circular live range [start, start + size) mod capacity.
Live(b) ==
    {(b.start + k) % b.capacity : k \in 0..(b.size - 1)}

TypeOK ==
    /\ cap \in Caps
    /\ panic \in {NoPanic, PanicMakeslice, PanicDivide}
    /\ phase \in {"adding", "draining", "drained", "mixed"}
    /\ Len(added) <= MaxAdds
    /\ \A i \in DOMAIN data : data[i] \in T
\* ------------------------------------------------------------- claims
\* C1: for a buffer built with capacity >= 1, after every sequence of Add,
\* Pop and Readd calls 0 <= size <= capacity and 0 <= start < capacity, and
\* a Len call returns a value in 0..capacity.
C1_Bounds ==
    capacity >= 1 =>
        /\ 0 <= size /\ size <= capacity
        /\ 0 <= start /\ start < capacity
        /\ RingBuffer_Len(buf) \in 0..capacity
        /\ (last.op = "Len" => last.n \in 0..capacity)

\* A full buffer whose head has wrapped to the last slot, just measured.
C1_Witness ==
    /\ capacity >= 2
    /\ last.op = "Len" /\ last.n = capacity
    /\ start = capacity - 1
    /\ before.op = "Add"

\* C2: from an empty buffer of capacity C >= 1, N <= C adds followed by Pops
\* return the added values in the order added, each with ok = true, and the
\* (N+1)-th Pop returns ok = false.
C2_Fifo ==
    (capacity >= 1 /\ phase \in {"draining", "drained"} /\ Len(added) <= capacity) =>
        /\ Len(popped) <= Len(added)
        /\ popped = SubSeq(added, 1, Len(popped))
        /\ (phase = "drained" => popped = added)

\* A run of C distinct-headed adds, started at a wrapped head, fully drained.
C2_Witness ==
    /\ capacity >= 2
    /\ phase = "drained"
    /\ Len(added) = capacity
    /\ added[1] # added[2]
    /\ popped = added
    /\ last.op = "Pop" /\ ~last.ok /\ last.pre.start # 0

\* C3: C + k adds (k >= 1) to an empty buffer followed by Pops until
\* ok = false yield exactly the last C values added, oldest of those first.
C3_Overwrite ==
    (capacity >= 1 /\ phase \in {"draining", "drained"} /\ Len(added) > capacity) =>
        LET kept == SubSeq(added, Len(added) - capacity + 1, Len(added))
        IN  /\ Len(popped) <= capacity
            /\ popped = SubSeq(kept, 1, Len(popped))
            /\ (phase = "drained" => popped = kept)

\* A drained run with k = 2 in which an evicted value differs from a kept one.
C3_Witness ==
    /\ capacity >= 2
    /\ phase = "drained"
    /\ Len(added) = capacity + 2
    /\ Len(popped) = capacity
    /\ added[1] # popped[1]
    /\ popped[1] # popped[2]

\* C6: with size < capacity and contents [e1..en], Readd(x) returns true,
\* sets start to (start - 1 + capacity) mod capacity, increments size, and
\* the contents become [x, e1..en]: the next Pops return x, e1, .., en.
C6_ReaddFront ==
    (last.op = "Readd" /\ last.pre.size < last.pre.capacity) =>
        /\ last.ok
        /\ start = (last.pre.start - 1 + last.pre.capacity) % last.pre.capacity
        /\ size = last.pre.size + 1
        /\ capacity = last.pre.capacity
        /\ Contents(buf) = <<last.item>> \o Contents(last.pre)
        /\ Drain(buf) = <<last.item>> \o Drain(last.pre)

\* Readd in front of two elements, the head wrapping from slot 0 to the last.
C6_Witness ==
    /\ last.op = "Readd" /\ last.ok
    /\ last.pre.size = 2
    /\ last.pre.start = 0
    /\ start = capacity - 1
    /\ last.item # data[0]

\* C7: with size = capacity, Readd(x) returns false and leaves start, size
\* and every slot unchanged.
C7_ReaddFull ==
    (last.op = "Readd" /\ last.pre.size = last.pre.capacity) =>
        /\ ~last.ok
        /\ buf = last.pre
        /\ Drain(buf) = Drain(last.pre)

\* Readd rejected on a full buffer of capacity >= 2 with a wrapped head.
C7_Witness ==
    /\ last.op = "Readd" /\ ~last.ok
    /\ capacity >= 2
    /\ last.pre.size = capacity
    /\ last.pre.start # 0
    /\ last.item # data[start]

\* C8: with size = 0 (a fresh buffer, or one emptied later), Pop returns
\* ok = false and the zero value, and leaves start, size and every slot
\* unchanged.
C8_PopEmpty ==
    (capacity >= 1 /\ last.op = "Pop" /\ last.pre.size = 0) =>
        /\ ~last.ok
        /\ last.result = Zero
        /\ last.item = Zero
        /\ buf = last.pre

\* Pop on a buffer emptied by an earlier successful Pop, head not at slot 0.
C8_Witness ==
    /\ capacity >= 2
    /\ last.op = "Pop" /\ ~last.ok
    /\ last.pre.size = 0 /\ last.pre.start # 0
    /\ before.op = "Pop" /\ before.ok

\* C9 as stated: from every state with size < capacity, Pop followed at once
\* by Readd of the value Pop returned restores Len, and the next Pop returns
\* that value again.
C9_RoundTripNonFull ==
    (/\ before.op = "Pop" /\ before.pre.size < before.pre.capacity
     /\ last.op = "Readd" /\ last.item = before.result) =>
        /\ RingBuffer_Len(buf) = RingBuffer_Len(before.pre)
        /\ RingBuffer_Pop(buf).ok
        /\ RingBuffer_Pop(buf).result = before.result

\* C9 amended: the same for every state with 1 <= size < capacity, where the
\* Pop succeeds.
C9_RoundTrip ==
    (/\ before.op = "Pop" /\ before.pre.size < before.pre.capacity
     /\ before.pre.size >= 1
     /\ last.op = "Readd" /\ last.item = before.result) =>
        /\ before.ok /\ last.ok
        /\ RingBuffer_Len(buf) = RingBuffer_Len(before.pre)
        /\ RingBuffer_Pop(buf).ok
        /\ RingBuffer_Pop(buf).result = before.result

\* Pop then Readd of its result on a buffer holding two different elements.
C9_Witness ==
    /\ before.op = "Pop" /\ before.ok
    /\ before.pre.size = 2 /\ before.pre.capacity = 3
    /\ last.op = "Readd" /\ last.ok /\ last.item = before.result
    /\ Contents(buf)[1] # Contents(buf)[2]

\* C10: for every capacity <= 0 NewRingBuffer itself panics and returns no
\* buffer, so no later Add, Pop or Readd is where the failure shows.
C10_RejectedAtConstruction ==
    /\ (cap <= 0 => panic = PanicMakeslice)
    /\ panic # PanicDivide
\* C4: each of Add, Pop, Readd and Len holds b.mu whenever it touches start,
\* size or storage; in particular Len reads size holding the lock, so never
\* while another goroutine is inside Add, Pop or Readd.
C4_AllUnderLock ==
    \A g \in Procs :
        pc[g] \in (LockedPcs \cup {"LenRead"}) => mu = g

\* C5: at most one goroutine is between Lock and Unlock of Add, Pop and
\* Readd; state and results equal those of the calls run one at a time in
\* lock-acquisition order; 0 <= start < capacity and 0 <= size <= capacity
\* hold in every state, inside a call included.
C5_Serial ==
    /\ \A g, h \in Procs :
           (pc[g] \in LockedPcs /\ pc[h] \in LockedPcs) => g = h
    /\ \A g \in Procs : pc[g] \in LockedPcs <=> mu = g
    /\ (mu = 0 => buf = lin)
    /\ \A g \in Procs :
           pc[g] \in DonePcs =>
               /\ buf = lin
               /\ loc[g].result = exp[g].result
               /\ loc[g].ok = exp[g].ok
    /\ 0 <= start /\ start < capacity
    /\ 0 <= size /\ size <= capacity

\* A goroutine finishing a Pop of a value another goroutine added, while the
\* other goroutine is inside Len.
C5_Witness ==
    \E g, h \in Procs :
        /\ g # h
        /\ pc[g] = "PopUnlock" /\ loc[g].ok /\ loc[g].result # Zero
        /\ pc[h] = "LenRead"
        /\ start # 0
C15_SlotsCleared ==
    capacity >= 1 =>
        /\ \A i \in 0..(capacity - 1) : i \notin Live(buf) => data[i] = Zero
        /\ (last.op = "Pop" /\ last.ok) => data[last.pre.start] = Zero

\* A Pop of a non-zero element from a full buffer with a wrapped head.
C15_Witness ==
    /\ capacity >= 2
    /\ last.op = "Pop" /\ last.ok /\ last.result # Zero
    /\ last.pre.size = capacity /\ last.pre.start # 0
    /\ data[last.pre.start] = Zero

\* C16: Add writes the item at (start + size) mod capacity. With
\* size < capacity, size grows by one and start and the live elements stay.
\* With size = capacity that index is start, the oldest element is
\* overwritten, start advances by one mod capacity and size stays. Either
\* way the item is the newest element, the last one a drain returns.
C16_AddCases ==
    (capacity >= 1 /\ last.op = "Add") =>
        LET pre == last.pre
            idx == (pre.start + pre.size) % pre.capacity
        IN  /\ data = [pre.data EXCEPT ![idx] = last.item]
            /\ capacity = pre.capacity
            /\ IF pre.size < pre.capacity
               THEN /\ size = pre.size + 1
                    /\ start = pre.start
                    /\ Contents(buf) = Contents(pre) \o <<last.item>>
               ELSE /\ idx = pre.start
                    /\ start = (pre.start + 1) % pre.capacity
                    /\ size = pre.capacity
                    /\ Contents(buf) = Tail(Contents(pre)) \o <<last.item>>
            /\ Drain(buf)[size] = last.item

\* An Add that evicts the oldest element of a full buffer of capacity >= 2.
C16_Witness ==
    /\ capacity >= 2
    /\ last.op = "Add"
    /\ last.pre.size = capacity
    /\ last.pre.start = capacity - 1
    /\ last.item # last.pre.data[last.pre.start]
    /\ before.op = "Add" /\ before.pre.size < capacity

\* C17: the live slots data[(start + i) mod capacity], i < size, equal the
\* sequence q after every sequence of operations, and every Pop and Readd
\* returns what the operation on q returns.
C17_Refinement ==
    capacity >= 1 =>
        /\ Len(abs.q) <= capacity
        /\ Contents(buf) = abs.q
        /\ (last.op = "Pop" => last.result = abs.result /\ last.ok = abs.ok)
        /\ (last.op = "Readd" => last.ok = abs.ok)

\* A Readd in front of a wrapped, non-empty buffer after an evicting Add.
C17_Witness ==
    /\ capacity >= 2
    /\ last.op = "Readd" /\ last.ok
    /\ Len(abs.q) = capacity
    /\ abs.q[1] # abs.q[2]
    /\ start + size > capacity

\* C18: in every state with size >= 1, full or not, a successful Pop
\* returning v followed at once by Readd(v) returns true and restores start,
\* size and every slot.
C18_PopReaddInverse ==
    (/\ before.op = "Pop" /\ before.pre.size >= 1
     /\ last.op = "Readd" /\ last.item = before.result) =>
        /\ before.ok
        /\ last.ok
        /\ buf = before.pre

\* Pop then Readd of its result on a full buffer with a wrapped head.
C18_Witness ==
    /\ capacity >= 2
    /\ before.op = "Pop" /\ before.ok
    /\ before.pre.size = capacity /\ before.pre.start # 0
    /\ last.op = "Readd" /\ last.ok /\ last.item = before.result
    /\ before.result # Zero
\* C14: on a new buffer of capacity 3, Add(1), Add(2), Add(3), Add(4) leaves
\* [2,3,4]; Pop returns 2, true and leaves [3,4], Len 2; Readd(2) returns
\* true and leaves [2,3,4], Len 3; Add(5) leaves [3,4,5].
C14_Scenario ==
    LET run == <<1, 2, 3, 4, Zero, 2, 5>>
        n == Len(trace)
    IN  (capacity = 3 /\ trace = SubSeq(run, 1, n)) =>
            /\ (n = 4 => Contents(buf) = <<2, 3, 4>>)
            /\ (n = 5 => /\ last.op = "Pop" /\ last.result = 2 /\ last.ok
                         /\ Contents(buf) = <<3, 4>>
                         /\ RingBuffer_Len(buf) = 2)
            /\ (n = 6 => /\ last.op = "Readd" /\ last.ok
                         /\ Contents(buf) = <<2, 3, 4>>
                         /\ RingBuffer_Len(buf) = 3)
            /\ (n = 7 => /\ Contents(buf) = <<3, 4, 5>>
                         /\ Drain(buf) = <<3, 4, 5>>)

\* The end of the scenario.
C14_Witness ==
    /\ capacity = 3
    /\ trace = <<1, 2, 3, 4, Zero, 2, 5>>
    /\ last.op = "Add" /\ last.item = 5
    /\ before.op = "Readd" /\ before.ok

\* C19: a Len that runs while other goroutines call Add, Pop and Readd (one
\* read of size, possibly while another goroutine is between Lock and Unlock)
\* returns a value in 0..capacity that is the size the buffer had immediately
\* before or immediately after a call overlapping it; running the calls one at
\* a time in lock order produces that size.
C19_LenValue ==
    [][\A g \in Procs :
           LenRead(g) =>
               /\ loc'[g].n \in 0..capacity
               /\ loc'[g].n \in during[g]]_vars

\* Len has returned the size from before a Pop that another goroutine is in
\* the middle of; run one at a time, that Pop has already shrunk the buffer.
C19_Witness ==
    \E g, h \in Procs :
        /\ g # h
        /\ pc[g] = "LenRet" /\ pc[h] = "PopSize"
        /\ loc[g].n = sizeBefore
        /\ loc[g].n = lin.size + 1

\* C11: under fair scheduling every call of Add, Pop, Readd and Len that has
\* started returns (Pop on the empty buffer and Readd on the full one among
\* them); b.mu is free whenever no goroutine is between Lock and Unlock; and
\* while a call is in progress some call in progress can take a step.
C11_NoBlocking ==
    /\ []((\A g \in Procs : pc[g] \notin LockedPcs) => mu = 0)
    /\ []((\E g \in Procs : pc[g] # "idle") =>
              ENABLED (\E g \in Procs : Body(g) \/ LockStep(g)))
    /\ \A g \in Procs : (pc[g] # "idle") ~> (pc[g] = "idle")

\* A Pop that found the buffer empty is about to return false while another
\* goroutine waits in Lock for its Add.
C11_Witness ==
    \E g, h \in Procs :
        /\ g # h
        /\ pc[g] = "PopUnlock" /\ ~loc[g].ok /\ size = 0
        /\ pc[h] = "AddLock"

\* C13: SafeGo adds one to the counter before it launches the goroutine and
\* the goroutine takes one off, once, after f: the counter is never
\* negative and counts the goroutines launched and not finished; Wait does
\* not return while a launched f is running; and once the caller is in Wait
\* and every f has returned, the counter reaches zero and Wait returns.
C13_SafeGo ==
    /\ [](wgCounter >= 0)
    /\ [](wgCounter = Cardinality(Running) + (IF sgPc = "Go" THEN 1 ELSE 0))
    /\ [](sgPc = "Done" => Running = {})
    /\ (sgPc = "Wait" /\ \A i \in Tasks : task[i] \in {"none", "returned", "done"})
           ~> (wgCounter = 0 /\ sgPc = "Done")

\* Wait is blocked: one f has finished, one has returned with its Done
\* pending, one is still running.
C13_Witness ==
    /\ sgPc = "Wait"
    /\ wgCounter = 2
    /\ \E i, j, k \in Tasks :
           task[i] = "done" /\ task[j] = "returned" /\ task[k] = "f"
====
